---- MODULE Spec2Model ----
(***************************************************************************)
(* Model of the MQTT dashboard relay (src/dashboard.py): the ingestion      *)
(* callback mqtt_on_message, the publish-confirmation callback on_publish,  *)
(* the shared event queue event_q and the /stream sessions that drain it.   *)
(*                                                                          *)
(* Spec splits mqtt_on_message at its statements that touch shared state    *)
(* (event_q.put, latest[...] = , client.publish, pending_publishes[...] =)  *)
(* so that on_publish interleaves with it; no stream session is attached.   *)
(* SpecStream runs each callback as one step and adds the stream sessions   *)
(* that drain event_q.                                                      *)
(* SpecLoop is Spec with the relay's own acknowledgements delivered back   *)
(* through its 'ack/#' subscription.  SpecE2E puts the sensors of           *)
(* src/publisher.py and the relay on one bus that delivers every            *)
(* acknowledgement.                                                         *)
(* Timestamps ('ts' fields) are not modelled.  The fields seq, n and aud of *)
(* events, and n of tracker entries, are history annotations: seq is the    *)
(* enqueue number, n the number of the ingested message the event belongs   *)
(* to, aud the sessions attached when the event was enqueued.               *)
(***************************************************************************)
EXTENDS Integers, Sequences, FiniteSets, TLC

\* ---------------------------------------------------------------- bounds
MaxMsgs == 3        \* messages the bus delivers to mqtt_on_message
MaxMid == 2         \* publish handles wrap after MaxMid (65535 in the client)
MaxSpurious == 1    \* confirmations for handles with no publish in flight
NumViewers == 2     \* stream sessions ever opened
MaxStreamMsgs == 1  \* messages delivered while stream sessions run (SpecStream)
MaxReadings == 1    \* readings each sensor publishes (SpecE2E)
MaxBadAcks == 1     \* broken payloads other clients publish on ack topics (SpecE2E)

Viewers == 1..NumViewers
Mids == 1..MaxMid

\* ---------------------------------------------------------------- values
NoneVal == "<None>"          \* Python None
NoMid == 0                   \* info.mid unavailable (mid = None, line 78)

StrMutant(x) == x

\* str(x) as used by the f-string of line 70
Str(x) == IF x = NoneVal THEN "None" ELSE x

\* a parsed JSON value: an object (dict) or something else (number, list...)
Dict(id, sensor, origId, from) ==
  [kind |-> "dict", id |-> id, sensor |-> sensor, origId |-> origId, from |-> from]
Scalar == [kind |-> "scalar", id |-> NoneVal, sensor |-> NoneVal,
           origId |-> NoneVal, from |-> NoneVal]

\* raw bytes on the wire: either the encoding of a value or garbage
Dumps(v) == [ok |-> TRUE, val |-> v]
Garbage == [ok |-> FALSE, val |-> Scalar]
Parses(raw) == raw.ok
Loads(raw) == raw.val

\* payload.get(key): the field, or None when it is absent
Get(payload, key) == payload[key]

\* topic.startswith('ack/'); a topic is the sequence of its '/'-separated levels
IsAckTopic(topic) == Len(topic) >= 2 /\ topic[1] = "ack"

AckTopicMutant(sensor_id) == <<"ack", "sensor", Str(sensor_id)>>
AckTopic(sensor_id) == <<"ack", Str(sensor_id)>>
AckMsgMutant(payload) == Dict(NoneVal, NoneVal, Get(payload, "sensor"), "dashboard")
AckMsg(payload) == Dict(NoneVal, NoneVal, Get(payload, "id"), "dashboard")

\* ---------------------------------------------------------------- inputs
SensorTopic == <<"home", "livingroom", "temperature">>
Reading(id, sensor) == Dict(id, sensor, NoneVal, NoneVal)

\* a message as the bus hands it to a callback; loop is a history annotation:
\* the number of the relay's own publish this message is the delivery of,
\* 0 for a message somebody else published
Msg(topic, raw) == [topic |-> topic, raw |-> raw, loop |-> 0]

Inputs ==
  { Msg(SensorTopic, Dumps(Reading("a1", "s1"))),
    Msg(SensorTopic, Dumps(Reading("a2", "s1"))),
    Msg(SensorTopic, Dumps(Reading("a4", NoneVal))),
    Msg(SensorTopic, Dumps(Scalar)),
    Msg(SensorTopic, Garbage),
    Msg(<<"ack", "s1">>, Garbage),
    Msg(<<"ack", "s1">>, Dumps(AckMsg(Reading("a1", "s1")))) }

\* the messages delivered in SpecStream
StreamInputs ==
  { Msg(SensorTopic, Dumps(Reading("a1", "s1"))),
    Msg(SensorTopic, Garbage),
    Msg(<<"ack", "s1">>, Dumps(AckMsg(Reading("a1", "s1")))) }

\* the messages other clients publish in SpecLoop
LoopInputs ==
  { Msg(SensorTopic, Dumps(Reading("a1", "s1"))),
    Msg(SensorTopic, Dumps(Reading("a4", NoneVal))),
    Msg(SensorTopic, Garbage),
    Msg(<<"ack", "s1">>, Dumps(AckMsg(Reading("a2", "s1")))) }

\* the sensors of publisher.py (two of the five of lines 97-103): the sensor
\* id, the topic it publishes to, and the uuid4 of its k-th reading
Sensors == {"s1", "s2"}
TopicOf(s) == <<"home", s>>
ReadingId(s, k) == IF s = "s1" THEN <<"a1", "a2", "a3">>[k] ELSE <<"b1", "b2", "b3">>[k]

\* ---------------------------------------------------------------- state
VARIABLES
  event_q,      \* queue.Queue of events (line 27)
  latest,       \* sensor id -> last payload (line 29)
  pending,      \* userdata['pending_publishes']: mid -> entry (line 87)
  pc,           \* position of the network thread inside mqtt_on_message
  cur,          \* locals of the running mqtt_on_message call
  last_mid,     \* the client's handle counter
  published,    \* history: publishes submitted through client.publish
  inflight,     \* indices of published the bus has not yet confirmed
  confirmed,    \* history: indices of published the bus has confirmed
  onpub,        \* history: the calls of on_publish (handle, entry found, in flight)
  received,     \* history: messages handed to mqtt_on_message
  log,          \* history: every event ever enqueued
  vpc,          \* position of each stream session
  conn,         \* whether the session's transport is still connected
  item,         \* the event a session holds between get() and yield
  delivered,    \* history: events written to each viewer's transport
  lost,         \* history: events taken by a session whose viewer is gone
  acked,        \* Sensor.acked of each sensor of the publisher (publisher.py:32)
  sent,         \* history: how many readings each Sensor.run has published
  wire,         \* history: the readings the sensors have published
  onack         \* history: the calls of Sensor._on_ack

vars == <<event_q, latest, pending, pc, cur, last_mid, published, inflight,
          confirmed, onpub, received, log, vpc, conn, item, delivered, lost,
          acked, sent, wire, onack>>

relayVars == <<latest, pending, pc, cur, last_mid, published, inflight,
               confirmed, onpub, received>>
viewVars == <<vpc, conn, item, delivered, lost>>
sensorVars == <<acked, sent, wire, onack>>

EmptyMap == [k \in {} |-> Scalar]
NoCur == [topic |-> <<>>, payload |-> Scalar, n |-> 0, mid |-> NoMid,
          ack_topic |-> <<>>, ack_msg |-> Scalar]
NoItem == [direction |-> "", topic |-> <<>>, payload |-> Scalar, annot |-> <<>>,
           seq |-> 0, n |-> 0, aud |-> {}]

Attached == {v \in Viewers : vpc[v] \in {"get", "yield"} /\ conn[v]}

\* event_q.put(ev)
Event(direction, topic, payload, annot, n) ==
  [direction |-> direction, topic |-> topic, payload |-> payload, annot |-> annot,
   seq |-> 0, n |-> n, aud |-> Attached]

\* evs with their enqueue numbers, following the k events already logged
Stamp(evs, k) == [i \in DOMAIN evs |-> [evs[i] EXCEPT !.seq = k + i]]

\* queue.Queue() is built with the default maxsize (line 27)
QueueMaxSize == 0

HasRoomMutant(q, k) == Len(q) + k <= 3

\* put blocks while a queue with maxsize > 0 is full
HasRoom(q, k) == QueueMaxSize <= 0 \/ Len(q) + k <= QueueMaxSize

PutAll(evs) ==
  /\ HasRoom(event_q, Len(evs))
  /\ event_q' = event_q \o Stamp(evs, Len(log))
  /\ log' = log \o Stamp(evs, Len(log))

Put(ev) == PutAll(<<ev>>)

Init ==
  /\ event_q = <<>>
  /\ latest = EmptyMap
  /\ pending = EmptyMap
  /\ pc = "idle"
  /\ cur = NoCur
  /\ last_mid = 0
  /\ published = <<>>
  /\ inflight = {}
  /\ confirmed = {}
  /\ onpub = <<>>
  /\ received = <<>>
  /\ log = <<>>
  /\ vpc = [v \in Viewers |-> "off"]
  /\ conn = [v \in Viewers |-> FALSE]
  /\ item = [v \in Viewers |-> NoItem]
  /\ delivered = [v \in Viewers |-> <<>>]
  /\ lost = <<>>
  /\ acked = [s \in Sensors |-> NoneVal]
  /\ sent = [s \in Sensors |-> 0]
  /\ wire = {}
  /\ onack = <<>>

\* ------------------------------------------------------- mqtt_on_message
\* the events of lines 56, 61, 64 and 82
EvBrokerToPublisher(topic, payload, n) ==
  Event("broker->publisher", topic, payload, <<>>, n)
EvPublisherToBroker(topic, payload, n) ==
  Event("publisher->broker", topic, payload, <<>>, n)
EvBrokerToSubscriber(topic, payload, n) ==
  Event("broker->subscriber", topic, payload, <<"subscriber", "dashboard">>, n)
EvSubscriberToBroker(ack_topic, ack_msg, n) ==
  Event("subscriber->broker", ack_topic, ack_msg, <<"publisher", "dashboard">>, n)

ReceiveMalformedMutant(m) ==
  /\ pc = "idle" /\ Len(received) < MaxMsgs
  /\ ~Parses(m.raw)
  /\ received' = Append(received, m)
  /\ Put(Event("publisher->broker", m.topic, Loads(m.raw), <<>>, Len(received) + 1))
  /\ UNCHANGED <<latest, pending, pc, cur, last_mid, published,
                 inflight, confirmed, onpub>>
  /\ UNCHANGED <<viewVars, sensorVars>>

\* lines 47-51: json.loads raises, the message is dropped
ReceiveMalformed(m) ==
  /\ pc = "idle" /\ Len(received) < MaxMsgs
  /\ ~Parses(m.raw)
  /\ received' = Append(received, m)
  /\ UNCHANGED <<event_q, log, latest, pending, pc, cur, last_mid, published,
                 inflight, confirmed, onpub>>
  /\ UNCHANGED <<viewVars, sensorVars>>

ReceiveAckMutant(m) ==
  /\ pc = "idle" /\ Len(received) < MaxMsgs
  /\ Parses(m.raw) /\ IsAckTopic(m.topic)
  /\ received' = Append(received, m)
  /\ cur' = [NoCur EXCEPT !.topic = m.topic, !.payload = Loads(m.raw),
                          !.n = Len(received) + 1]
  /\ pc' = "l61"
  /\ UNCHANGED <<event_q, log, latest, pending, last_mid, published,
                 inflight, confirmed, onpub>>
  /\ UNCHANGED <<viewVars, sensorVars>>

\* lines 47-59: a message on a topic starting with 'ack/'
ReceiveAck(m) ==
  /\ pc = "idle" /\ Len(received) < MaxMsgs
  /\ Parses(m.raw) /\ IsAckTopic(m.topic)
  /\ received' = Append(received, m)
  /\ Put(EvBrokerToPublisher(m.topic, Loads(m.raw), Len(received) + 1))
  /\ UNCHANGED <<latest, pending, pc, cur, last_mid, published,
                 inflight, confirmed, onpub>>
  /\ UNCHANGED <<viewVars, sensorVars>>

\* lines 47-55: a parseable message on any other topic enters the sensor path
ReceiveSensor(m) ==
  /\ pc = "idle" /\ Len(received) < MaxMsgs
  /\ Parses(m.raw) /\ ~IsAckTopic(m.topic)
  /\ received' = Append(received, m)
  /\ cur' = [NoCur EXCEPT !.topic = m.topic, !.payload = Loads(m.raw),
                          !.n = Len(received) + 1]
  /\ pc' = "l61"
  /\ UNCHANGED <<event_q, log, latest, pending, last_mid, published,
                 inflight, confirmed, onpub>>
  /\ UNCHANGED <<viewVars, sensorVars>>

\* line 61
PutPublisherToBroker ==
  /\ pc = "l61"
  /\ Put(EvPublisherToBroker(cur.topic, cur.payload, cur.n))
  /\ pc' = "l64"
  /\ UNCHANGED <<latest, pending, cur, last_mid, published, inflight,
                 confirmed, onpub, received>>
  /\ UNCHANGED <<viewVars, sensorVars>>

\* line 64
PutBrokerToSubscriber ==
  /\ pc = "l64"
  /\ Put(EvBrokerToSubscriber(cur.topic, cur.payload, cur.n))
  /\ pc' = "l67"
  /\ UNCHANGED <<latest, pending, cur, last_mid, published, inflight,
                 confirmed, onpub, received>>
  /\ UNCHANGED <<viewVars, sensorVars>>

UpdateLatestMutant ==
  /\ pc = "l67"
  /\ IF cur.payload.kind = "dict"
       THEN /\ latest' = latest @@ (Get(cur.payload, "sensor") :> cur.payload)
            /\ pc' = "l70"
            /\ cur' = cur
       ELSE /\ latest' = latest
            /\ pc' \in {"idle", "dead"}
            /\ cur' = NoCur
  /\ UNCHANGED <<event_q, log, pending, last_mid, published, inflight,
                 confirmed, onpub, received>>
  /\ UNCHANGED <<viewVars, sensorVars>>

\* lines 67-68; payload.get raises AttributeError when payload is not a dict,
\* and the exception leaves the callback: the client either keeps serving
\* messages or its loop thread ends, depending on the client library
UpdateLatest ==
  /\ pc = "l67"
  /\ IF cur.payload.kind = "dict"
       THEN /\ latest' = (Get(cur.payload, "sensor") :> cur.payload) @@ latest
            /\ pc' = "l70"
            /\ cur' = cur
       ELSE /\ latest' = latest
            /\ pc' \in {"idle", "dead"}
            /\ cur' = NoCur
  /\ UNCHANGED <<event_q, log, pending, last_mid, published, inflight,
                 confirmed, onpub, received>>
  /\ UNCHANGED <<viewVars, sensorVars>>

\* the handle client.publish hands out: the next one of the wrapping counter
NextMid(m) == (m % MaxMid) + 1

\* lines 70-78: build the acknowledgement, submit it, read info.mid
PublishAck ==
  /\ pc = "l70"
  /\ \E hasMid \in BOOLEAN :
       LET ack_topic == AckTopic(Get(cur.payload, "sensor"))
           ack_msg == AckMsg(cur.payload)
           mid == NextMid(last_mid)
       IN /\ published' = Append(published,
                 [topic |-> ack_topic, raw |-> Dumps(ack_msg), mid |-> mid,
                  ret |-> IF hasMid THEN mid ELSE NoMid, n |-> cur.n])
          /\ inflight' = inflight \cup {Len(published) + 1}
          /\ last_mid' = mid
          /\ cur' = [cur EXCEPT !.mid = IF hasMid THEN mid ELSE NoMid,
                                !.ack_topic = ack_topic, !.ack_msg = ack_msg]
  /\ pc' = "l79"
  /\ UNCHANGED <<event_q, log, latest, pending, confirmed, onpub, received>>
  /\ UNCHANGED <<viewVars, sensorVars>>

\* pending_publishes[mid] = {...}
Track(p, mid, topic, payload, n) ==
  (mid :> [topic |-> topic, payload |-> payload, n |-> n]) @@ p

\* lines 79-80
TrackAck ==
  /\ pc = "l79"
  /\ pending' = IF cur.mid # NoMid
                  THEN Track(pending, cur.mid, cur.ack_topic, cur.ack_msg, cur.n)
                  ELSE pending
  /\ pc' = "l82"
  /\ UNCHANGED <<event_q, log, latest, cur, last_mid, published, inflight,
                 confirmed, onpub, received>>
  /\ UNCHANGED <<viewVars, sensorVars>>

PutSubscriberToBrokerMutant ==
  /\ pc = "l82"
  /\ pc' = "idle"
  /\ cur' = NoCur
  /\ UNCHANGED <<event_q, log, latest, pending, last_mid, published, inflight,
                 confirmed, onpub, received>>
  /\ UNCHANGED <<viewVars, sensorVars>>

\* line 82
PutSubscriberToBroker ==
  /\ pc = "l82"
  /\ Put(EvSubscriberToBroker(cur.ack_topic, cur.ack_msg, cur.n))
  /\ pc' = "idle"
  /\ cur' = NoCur
  /\ UNCHANGED <<latest, pending, last_mid, published, inflight,
                 confirmed, onpub, received>>
  /\ UNCHANGED <<viewVars, sensorVars>>

\* lines 46-83 run without interruption, for a parseable message on a
\* topic outside 'ack/'
OnSensorMessage(m) ==
  /\ pc = "idle" /\ Len(received) < MaxMsgs
  /\ Parses(m.raw) /\ ~IsAckTopic(m.topic)
  /\ received' = Append(received, m)
  /\ LET payload == Loads(m.raw)
         n == Len(received) + 1
         ack_topic == AckTopic(Get(payload, "sensor"))
         ack_msg == AckMsg(payload)
         mid == NextMid(last_mid)
     IN IF payload.kind = "dict"
          THEN /\ PutAll(<<EvPublisherToBroker(m.topic, payload, n),
                           EvBrokerToSubscriber(m.topic, payload, n),
                           EvSubscriberToBroker(ack_topic, ack_msg, n)>>)
               /\ latest' = (Get(payload, "sensor") :> payload) @@ latest
               /\ \E hasMid \in BOOLEAN :
                    /\ published' = Append(published,
                          [topic |-> ack_topic, raw |-> Dumps(ack_msg), mid |-> mid,
                           ret |-> IF hasMid THEN mid ELSE NoMid, n |-> n])
                    /\ pending' = IF hasMid THEN Track(pending, mid, ack_topic, ack_msg, n)
                                             ELSE pending
               /\ inflight' = inflight \cup {Len(published) + 1}
               /\ last_mid' = mid
               /\ pc' = "idle"
          ELSE /\ PutAll(<<EvPublisherToBroker(m.topic, payload, n),
                           EvBrokerToSubscriber(m.topic, payload, n)>>)
               /\ pc' \in {"idle", "dead"}
               /\ UNCHANGED <<latest, published, inflight, last_mid, pending>>
  /\ UNCHANGED <<cur, confirmed, onpub>>
  /\ UNCHANGED <<viewVars, sensorVars>>

\* ------------------------------------------------------------ on_publish
PopMutant(p, mid) == p

\* pending_publishes.pop(mid, None): the map afterwards
Pop(p, mid) == [k \in DOMAIN p \ {mid} |-> p[k]]

OnPublishMutant(mid) ==
  /\ pending' = Pop(pending, mid)
  /\ IF mid \in DOMAIN pending
       THEN Put(Event("broker->subscriber", pending[mid].topic, pending[mid].payload,
                      <<"note", "broker accepted publish">>, pending[mid].n))
       ELSE Put(Event("broker->subscriber", <<>>, Scalar,
                      <<"note", "broker accepted publish">>, 0))

\* lines 93-97
OnPublish(mid) ==
  /\ pending' = Pop(pending, mid)
  /\ IF mid \in DOMAIN pending
       THEN Put(Event("broker->subscriber", pending[mid].topic, pending[mid].payload,
                      <<"note", "broker accepted publish">>, pending[mid].n))
       ELSE UNCHANGED <<event_q, log>>

\* the bus confirms a publish that is in flight
BusConfirm(i) ==
  /\ i \in inflight
  /\ OnPublish(published[i].mid)
  /\ inflight' = inflight \ {i}
  /\ confirmed' = confirmed \cup {i}
  /\ onpub' = Append(onpub, [mid |-> published[i].mid,
                              found |-> published[i].mid \in DOMAIN pending, real |-> TRUE])
  /\ UNCHANGED <<latest, pc, cur, last_mid, published, received>>
  /\ UNCHANGED <<viewVars, sensorVars>>

\* the bus confirms a handle again, or one the relay never published
SpuriousConfirm(mid) ==
  /\ Cardinality({k \in DOMAIN onpub : ~onpub[k].real}) < MaxSpurious
  /\ \A i \in inflight : published[i].mid # mid
  /\ OnPublish(mid)
  /\ onpub' = Append(onpub, [mid |-> mid, found |-> mid \in DOMAIN pending, real |-> FALSE])
  /\ UNCHANGED <<latest, pc, cur, last_mid, published, inflight, confirmed, received>>
  /\ UNCHANGED <<viewVars, sensorVars>>

\* ---------------------------------------------------------------- stream
\* GET /stream: a new session starts its loop (lines 111-114)
Connect(v) ==
  /\ vpc[v] = "off"
  /\ vpc' = [vpc EXCEPT ![v] = "get"]
  /\ conn' = [conn EXCEPT ![v] = TRUE]
  /\ UNCHANGED <<event_q, log, item, delivered, lost>>
  /\ UNCHANGED <<relayVars, sensorVars>>

QueueGetMutant(q) == [item |-> q[Len(q)], rest |-> SubSeq(q, 1, Len(q) - 1)]

\* event_q.get() as queue.Queue serves it: the oldest item leaves the queue
QueueGet(q) == [item |-> Head(q), rest |-> Tail(q)]

\* line 115: the blocking get returns
GetItem(v) ==
  /\ vpc[v] = "get"
  /\ event_q # <<>>
  /\ item' = [item EXCEPT ![v] = QueueGet(event_q).item]
  /\ event_q' = QueueGet(event_q).rest
  /\ vpc' = [vpc EXCEPT ![v] = "yield"]
  /\ UNCHANGED <<log, conn, delivered, lost>>
  /\ UNCHANGED <<relayVars, sensorVars>>

\* lines 116-117: the item is written to the viewer's transport; when the
\* viewer is gone the write is lost and the session is closed
YieldItem(v) ==
  /\ vpc[v] = "yield"
  /\ IF conn[v]
       THEN /\ delivered' = [delivered EXCEPT ![v] = Append(@, item[v])]
            /\ vpc' = [vpc EXCEPT ![v] = "get"]
            /\ lost' = lost
       ELSE /\ lost' = Append(lost, [ev |-> item[v], by |-> v])
            /\ vpc' = [vpc EXCEPT ![v] = "closed"]
            /\ delivered' = delivered
  /\ item' = [item EXCEPT ![v] = NoItem]
  /\ UNCHANGED <<event_q, log, conn>>
  /\ UNCHANGED <<relayVars, sensorVars>>

\* the viewer goes away; its session runs on until a write fails
Disconnect(v) ==
  /\ conn[v]
  /\ conn' = [conn EXCEPT ![v] = FALSE]
  /\ UNCHANGED <<event_q, log, vpc, item, delivered, lost>>
  /\ UNCHANGED <<relayVars, sensorVars>>

\* ------------------------------------------------------------------ spec
Next ==
  \/ \E m \in Inputs : ReceiveMalformed(m)
  \/ \E m \in Inputs : ReceiveAck(m)
  \/ \E m \in Inputs : ReceiveSensor(m)
  \/ PutPublisherToBroker
  \/ PutBrokerToSubscriber
  \/ UpdateLatest
  \/ PublishAck
  \/ TrackAck
  \/ PutSubscriberToBroker
  \/ \E i \in 1..MaxMsgs : BusConfirm(i)
  \/ \E mid \in Mids : SpuriousConfirm(mid)

Spec == Init /\ [][Next]_vars

\* mqtt_on_message as one step, for the messages of SpecStream
OnMessage(m) ==
  /\ Len(received) < MaxStreamMsgs
  /\ \/ ReceiveMalformed(m)
     \/ ReceiveAck(m)
     \/ OnSensorMessage(m)

NextStream ==
  \/ \E m \in StreamInputs : OnMessage(m)
  \/ \E i \in 1..MaxStreamMsgs : BusConfirm(i)
  \/ \E v \in Viewers : Connect(v)
  \/ \E v \in Viewers : GetItem(v)
  \/ \E v \in Viewers : YieldItem(v)
  \/ \E v \in Viewers : Disconnect(v)

SpecStream == Init /\ [][NextStream]_vars

\* lines 39-43: the relay subscribes to 'ack/#', so the bus delivers the
\* acknowledgements it publishes back to its own mqtt_on_message, each once
LoopMsg(i) == [topic |-> published[i].topic, raw |-> published[i].raw, loop |-> i]

\* what the relay publishes goes out on an 'ack/' topic as json.dumps
\* output, so of the three ways into mqtt_on_message only ReceiveAck can
\* take it
Loopback(i) ==
  /\ i \in DOMAIN published
  /\ \A k \in DOMAIN received : received[k].loop # i
  /\ ReceiveAck(LoopMsg(i))

\* the running system: other clients' messages and the relay's own
\* acknowledgements arrive at mqtt_on_message, on_publish interleaves
NextLoop ==
  \/ \E m \in LoopInputs : ReceiveMalformed(m)
  \/ \E m \in LoopInputs : ReceiveAck(m)
  \/ \E m \in LoopInputs : ReceiveSensor(m)
  \/ \E i \in 1..MaxMsgs : Loopback(i)
  \/ PutPublisherToBroker
  \/ PutBrokerToSubscriber
  \/ UpdateLatest
  \/ PublishAck
  \/ TrackAck
  \/ PutSubscriberToBroker
  \/ \E i \in 1..MaxMsgs : BusConfirm(i)
  \/ \E mid \in Mids : SpuriousConfirm(mid)

SpecLoop == Init /\ [][NextLoop]_vars

\* ------------------------------------------------------------- publisher
\* publisher.py line 36
SensorAckTopic(s) == <<"ack", s>>

\* the readings the sensors can publish
SensorReadings ==
  { Msg(TopicOf(s), Dumps(Reading(ReadingId(s, k), s))) :
      s \in Sensors, k \in 1..MaxReadings }

\* publisher.py lines 54-56: one round of Sensor.run
SensorPublish(s) ==
  /\ sent[s] < MaxReadings
  /\ sent' = [sent EXCEPT ![s] = @ + 1]
  /\ wire' = wire \cup {Msg(TopicOf(s), Dumps(Reading(ReadingId(s, sent[s] + 1), s)))}
  /\ UNCHANGED <<acked, onack>>
  /\ UNCHANGED <<event_q, log, relayVars, viewVars>>

\* the bus hands a reading a sensor published to the relay, once
DeliverReading(m) ==
  /\ m \in wire
  /\ \A k \in DOMAIN received : received[k] # m
  /\ OnSensorMessage(m)

OnAckMutant(old, raw) == IF Parses(raw) THEN Get(Loads(raw), "origId") ELSE NoneVal

\* publisher.py lines 40-47: self.acked after _on_ack(msg); json.loads fails
\* on garbage and payload.get on a value that is not an object, and both
\* exceptions are caught
OnAck(old, raw) ==
  IF Parses(raw) /\ Loads(raw).kind = "dict" THEN Get(Loads(raw), "origId") ELSE old

\* the bus hands an acknowledgement the relay published to the sensor whose
\* callback is registered for its topic (publisher.py lines 36-38), once
DeliverAck(i, s) ==
  /\ i \in DOMAIN published
  /\ published[i].topic = SensorAckTopic(s)
  /\ \A k \in DOMAIN onack : onack[k].loop # i
  /\ acked' = [acked EXCEPT ![s] = OnAck(@, published[i].raw)]
  /\ onack' = Append(onack, [sensor |-> s, raw |-> published[i].raw, loop |-> i])
  /\ UNCHANGED <<sent, wire>>
  /\ UNCHANGED <<event_q, log, relayVars, viewVars>>

\* payloads _on_ack cannot use: unparseable bytes, and JSON that is no object
BadPayloads == {Garbage, Dumps(Scalar)}

\* another client publishes such a payload on a sensor's ack topic
BadAck(s, raw) ==
  /\ Cardinality({k \in DOMAIN onack : onack[k].loop = 0}) < MaxBadAcks
  /\ acked' = [acked EXCEPT ![s] = OnAck(@, raw)]
  /\ onack' = Append(onack, [sensor |-> s, raw |-> raw, loop |-> 0])
  /\ UNCHANGED <<sent, wire>>
  /\ UNCHANGED <<event_q, log, relayVars, viewVars>>

\* publisher and relay on one bus; on_publish, which writes only
\* pending_publishes and event_q, is left to Spec
NextE2E ==
  \/ \E s \in Sensors : SensorPublish(s)
  \/ \E m \in SensorReadings : DeliverReading(m)
  \/ \E i \in 1..MaxMsgs : \E s \in Sensors : DeliverAck(i, s)
  \/ \E s \in Sensors : \E raw \in BadPayloads : BadAck(s, raw)

\* a reliable bus goes on delivering while it holds an acknowledgement it
\* has not delivered
SpecE2E ==
  /\ Init
  /\ [][NextE2E]_vars
  /\ WF_vars(\E i \in 1..MaxMsgs : \E s \in Sensors : DeliverAck(i, s))

TypeOK ==
  /\ pc \in {"idle", "l61", "l64", "l67", "l70", "l79", "l82", "dead"}
  /\ Len(received) <= MaxMsgs
  /\ DOMAIN pending \subseteq Mids
  /\ inflight \subseteq 1..Len(published)

\* ---------------------------------------------------------------- claims
IsConfirmation(e) == e.annot = <<"note", "broker accepted publish">>

Range(f) == {f[i] : i \in DOMAIN f}

\* the events of ingested message n, in enqueue order, confirmation excluded
Immediate(n) == SelectSeq(log, LAMBDA e : e.n = n /\ ~IsConfirmation(e))
Directions(evs) == [i \in DOMAIN evs |-> evs[i].direction]

\* received[k] is a reading mqtt_on_message accepts: parseable, not on an
\* 'ack/' topic, an object
IsReading(m) ==
  /\ m.raw.ok
  /\ ~(Len(m.topic) >= 2 /\ m.topic[1] = "ack")
  /\ m.raw.val.kind = "dict"

\* the call for message k has returned
Returned(k) == k < Len(received) \/ (k = Len(received) /\ pc \in {"idle", "dead"})
\* the call for message k has got past client.publish (line 73)
PastPublish(k) == k < Len(received) \/ (k = Len(received) /\ pc \in {"idle", "l79", "l82"})

\* C1: every accepted reading gets exactly the three events publisher->broker,
\* broker->subscriber, subscriber->broker, in that order, and the confirmation
\* event of its acknowledgement is never enqueued before its
\* subscriber->broker event.
C1_ThreeEventsBeforeConfirmation ==
  /\ \A k \in DOMAIN received :
       (IsReading(received[k]) /\ Returned(k)) =>
         Directions(Immediate(k)) =
           <<"publisher->broker", "broker->subscriber", "subscriber->broker">>
  /\ \A i \in DOMAIN log :
       IsConfirmation(log[i]) =>
         \E j \in 1..(i - 1) :
           log[j].n = log[i].n /\ log[j].direction = "subscriber->broker"

\* C2: the acknowledgements submitted are, one for one and in order, those of
\* the accepted readings: topic 'ack/' + sensor, origId the reading's id,
\* from 'dashboard'; dropped and ack-topic messages submit none.
AcceptedPastPublish == {k \in DOMAIN received : IsReading(received[k]) /\ PastPublish(k)}

C2_OneAckPerReading ==
  /\ Len(published) = Cardinality(AcceptedPastPublish)
  /\ \A i \in DOMAIN published :
       LET k == published[i].n
           sensor == received[k].raw.val.sensor
       IN /\ k \in AcceptedPastPublish
          /\ \A j \in DOMAIN published : published[j].n = k => j = i
          /\ published[i].topic = <<"ack", IF sensor = NoneVal THEN "None" ELSE sensor>>
          /\ published[i].raw.ok
          /\ published[i].raw.val.kind = "dict"
          /\ published[i].raw.val.origId = received[k].raw.val.id
          /\ published[i].raw.val.from = "dashboard"

C2_Witness ==
  /\ pc = "idle"
  /\ Len(published) = 2
  /\ \E k \in DOMAIN received : ~IsReading(received[k])

\* C3: a message whose payload does not parse enqueues nothing, submits no
\* acknowledgement and leaves pending_publishes and latest as they were.
C3_MalformedDropped ==
  [][(Len(received') = Len(received) + 1 /\ ~received'[Len(received')].raw.ok)
       => UNCHANGED <<event_q, log, published, inflight, pending, latest>>]_vars

C3_Witness ==
  /\ \E k \in DOMAIN received : ~received[k].raw.ok /\ received[k].topic[1] = "ack"
  /\ \E k \in DOMAIN received : ~received[k].raw.ok /\ received[k].topic[1] # "ack"
  /\ log # <<>>
  /\ pending # EmptyMap

\* C4: a session never skips an event that was enqueued while it was
\* attached: when it has delivered a later event it has delivered that one.
C4_EveryViewerSeesEveryEvent ==
  \A v \in Viewers : \A i \in DOMAIN delivered[v] : \A j \in DOMAIN log :
    (v \in log[j].aud /\ log[j].seq < delivered[v][i].seq)
      => \E h \in DOMAIN delivered[v] : delivered[v][h].seq = log[j].seq

\* C5: no event that another viewer was attached for is taken by the session
\* of a viewer that has gone, and a viewer's going leaves the tracker, the
\* snapshot and the ingestion path as they were.
C5_DisconnectIsolated ==
  /\ [](\A i \in DOMAIN lost : lost[i].ev.aud \subseteq {lost[i].by})
  /\ [][(\E v \in Viewers : conn[v] /\ ~conn'[v]) => UNCHANGED relayVars]_vars

\* C6: each viewer receives events in enqueue order, two viewers receive
\* common events in the same relative order, and the immediate events of one
\* message reach a viewer in the order publisher->broker, broker->subscriber,
\* subscriber->broker.
HopRank(e) ==
  CASE e.direction = "publisher->broker" -> 1
    [] e.direction = "broker->subscriber" -> 2
    [] e.direction = "subscriber->broker" -> 3
    [] OTHER -> 0

C7_ResolveIdempotent ==
  /\ \A n \in DOMAIN received :
       Cardinality({i \in DOMAIN log : IsConfirmation(log[i]) /\ log[i].n = n}) <= 1
  /\ Cardinality({i \in DOMAIN log : IsConfirmation(log[i])})
       = Cardinality({k \in DOMAIN onpub : onpub[k].found})

C7_Witness ==
  \E i, j \in DOMAIN onpub :
    i < j /\ onpub[i].mid = onpub[j].mid /\ onpub[i].found /\ ~onpub[j].found

\* C8: on_publish for a handle that is not tracked changes nothing: no event,
\* tracker, snapshot and queue as before.
C8_UnknownHandleNoOp ==
  [][(Len(onpub') = Len(onpub) + 1 /\ onpub'[Len(onpub')].mid \notin DOMAIN pending)
       => UNCHANGED <<event_q, log, pending, latest, published, pc, cur>>]_vars

C8_Witness ==
  \E k \in DOMAIN onpub :
    /\ ~onpub[k].found
    /\ \A i \in DOMAIN published : published[i].mid # onpub[k].mid
    /\ log # <<>>

\* C9: once the bus has confirmed an acknowledgement whose publish returned a
\* handle, and the ingestion call that published it has returned, its
\* confirmation event has been enqueued and its entry has left
\* pending_publishes.
C9_ConfirmedIsResolved ==
  \A i \in confirmed :
    (published[i].ret # NoMid /\ Returned(published[i].n)) =>
      /\ \E j \in DOMAIN log : IsConfirmation(log[j]) /\ log[j].n = published[i].n
      /\ ~(/\ published[i].mid \in DOMAIN pending
           /\ pending[published[i].mid].n = published[i].n)

\* C10: an entry of pending_publishes is never replaced by another while it
\* is live.
C10_NoSilentOverwrite ==
  [][\A h \in DOMAIN pending : h \in DOMAIN pending' => pending'[h] = pending[h]]_vars

\* C11: a parseable message on an 'ack/' topic enqueues exactly one event,
\* broker->publisher, and nothing else happens: no acknowledgement, no
\* tracking, no snapshot change.  So the relay's own acknowledgements coming
\* back are not acknowledged again: acknowledgements never outnumber the
\* readings other clients sent, and events stay within five per reading plus
\* one per foreign ack message.
ForeignReadings == {k \in DOMAIN received : IsReading(received[k]) /\ received[k].loop = 0}
ForeignAcks ==
  {k \in DOMAIN received :
     received[k].raw.ok /\ received[k].topic[1] = "ack" /\ received[k].loop = 0}

C11_AckDeliveryStops ==
  /\ [](/\ Len(published) <= Cardinality(ForeignReadings)
        /\ \A i \in DOMAIN published : received[published[i].n].topic[1] # "ack"
        /\ Len(log) <= 5 * Cardinality(ForeignReadings) + Cardinality(ForeignAcks))
  /\ [][(/\ Len(received') = Len(received) + 1
         /\ received'[Len(received')].raw.ok
         /\ received'[Len(received')].topic[1] = "ack")
        => /\ Len(log') = Len(log) + 1
           /\ log'[Len(log')].direction = "broker->publisher"
           /\ log'[Len(log')].topic = received'[Len(received')].topic
           /\ log'[Len(log')].payload = received'[Len(received')].raw.val
           /\ event_q' = Append(event_q, log'[Len(log')])
           /\ UNCHANGED <<published, inflight, pending, latest, pc>>]_vars

C11_Witness ==
  \E k \in DOMAIN received :
    /\ received[k].loop # 0
    /\ \E j \in DOMAIN log : log[j].n = k /\ log[j].direction = "broker->publisher"
    /\ Len(received) > k

\* C12: the events a reading has caused: those of its own ingestion, its
\* confirmation, and those of the delivery of its acknowledgement back to the
\* relay.
CausedBy(j, k) ==
  \/ log[j].n = k
  \/ /\ log[j].n \in DOMAIN received
     /\ received[log[j].n].loop # 0
     /\ published[received[log[j].n].loop].n = k
EventsOf(k) == {j \in DOMAIN log : CausedBy(j, k)}
HasConfirmation(k) == \E j \in DOMAIN log : IsConfirmation(log[j]) /\ log[j].n = k
LoopedBack(k) ==
  \E h \in DOMAIN received : received[h].loop # 0 /\ published[received[h].loop].n = k

C13_NoReplay ==
  \A v \in Viewers : \A i \in DOMAIN delivered[v] : v \in delivered[v][i].aud

\* C14: whatever the sessions are doing and however deep the queue is, a
\* message that arrives can be handled to the end and a confirmation that is
\* due can be delivered.
C14_ViewersNeverBlockIngestion ==
  /\ \A m \in StreamInputs :
       (pc = "idle" /\ Len(received) < MaxStreamMsgs) => ENABLED OnMessage(m)
  /\ \A i \in inflight : ENABLED BusConfirm(i)

C14_Witness ==
  /\ inflight # {}
  /\ Len(event_q) >= 2
  /\ \E v \in Viewers : vpc[v] = "yield" /\ conn[v]
  /\ \E v \in Viewers : vpc[v] = "get" /\ ~conn[v]

\* C15: a call of mqtt_on_message for a message on a sensor topic that has
\* returned has either done nothing (no event, no acknowledgement) or all of
\* it (three events, one acknowledgement, the snapshot entry).
AcksOf(k) == {i \in DOMAIN published : published[i].n = k}

C15_AllOrNothing ==
  \A k \in DOMAIN received :
    (Returned(k) /\ received[k].topic[1] # "ack") =>
      \/ /\ Immediate(k) = <<>>
         /\ AcksOf(k) = {}
      \/ /\ Directions(Immediate(k)) =
              <<"publisher->broker", "broker->subscriber", "subscriber->broker">>
         /\ Cardinality(AcksOf(k)) = 1
         /\ received[k].raw.val.sensor \in DOMAIN latest

\* C16: a reading without a 'sensor' field goes through all of
\* mqtt_on_message: its three events in order, its acknowledgement on
\* 'ack/None', the returned handle tracked under that topic, and a snapshot
\* entry under the key None.
NoSensor(m) == IsReading(m) /\ m.raw.val.sensor = NoneVal

C16_NoSensorFullyProcessed ==
  /\ [](\A k \in DOMAIN received :
          (NoSensor(received[k]) /\ Returned(k)) =>
            /\ Directions(Immediate(k)) =
                 <<"publisher->broker", "broker->subscriber", "subscriber->broker">>
            /\ Immediate(k)[3].topic = <<"ack", "None">>
            /\ Immediate(k)[3].payload.origId = received[k].raw.val.id
            /\ \E i \in DOMAIN published :
                 published[i].n = k /\ published[i].topic = <<"ack", "None">>
            /\ NoneVal \in DOMAIN latest
            /\ latest[NoneVal].kind = "dict"
            /\ latest[NoneVal].sensor = NoneVal)
  /\ [][(/\ pc = "l79" /\ pc' = "l82"
         /\ cur.payload.sensor = NoneVal
         /\ published[Len(published)].ret # NoMid)
        => /\ published[Len(published)].ret \in DOMAIN pending'
           /\ pending'[published[Len(published)].ret].topic = <<"ack", "None">>
           /\ pending'[published[Len(published)].ret].n = cur.n]_vars

C16_Witness ==
  \E k \in DOMAIN received :
    /\ NoSensor(received[k]) /\ Returned(k)
    /\ \E i \in DOMAIN published : published[i].n = k /\ published[i].ret # NoMid

\* C17: latest holds, for each sensor identifier with an accepted reading, the
\* payload of the last such reading, and nothing else; it changes only at
\* line 68 of the call for an accepted reading.
PastSnapshot(k) ==
  k < Len(received) \/ (k = Len(received) /\ pc \in {"idle", "l70", "l79", "l82"})
Snapshotted == {k \in DOMAIN received : IsReading(received[k]) /\ PastSnapshot(k)}
LastFor(s) ==
  CHOOSE k \in Snapshotted :
    /\ received[k].raw.val.sensor = s
    /\ \A h \in Snapshotted : received[h].raw.val.sensor = s => h <= k

C17_LatestIsLastReading ==
  /\ [](/\ DOMAIN latest = {received[k].raw.val.sensor : k \in Snapshotted}
        /\ \A s \in DOMAIN latest : latest[s] = received[LastFor(s)].raw.val)
  /\ [][latest' # latest =>
          /\ pc = "l67" /\ pc' = "l70"
          /\ IsReading(received[Len(received)])
          /\ received' = received]_vars

C17_Witness ==
  /\ \E k, h \in Snapshotted :
       /\ k < h
       /\ received[k].raw.val.sensor = received[h].raw.val.sensor
       /\ received[k].raw.val # received[h].raw.val
  /\ onpub # <<>>

\* C18: outside the window between client.publish and the tracking
\* assignment, pending_publishes holds exactly the returned handles of the
\* acknowledgements the bus has not confirmed, each with the topic and
\* payload that were published under it; an acknowledgement published
\* without a handle is never tracked, never gets a confirmation event and
\* still gets its subscriber->broker event.
C18_TrackerConservation ==
  /\ pc # "l79" =>
       /\ DOMAIN pending = {published[i].ret : i \in inflight} \ {NoMid}
       /\ \A h \in DOMAIN pending :
            \E i \in inflight :
              /\ published[i].ret = h
              /\ pending[h].topic = published[i].topic
              /\ pending[h].payload = published[i].raw.val
  /\ \A i \in DOMAIN published :
       published[i].ret = NoMid =>
         /\ \A h \in DOMAIN pending : pending[h].n # published[i].n
         /\ \A j \in DOMAIN log : IsConfirmation(log[j]) => log[j].n # published[i].n
         /\ Returned(published[i].n) =>
              \E j \in DOMAIN log :
                log[j].n = published[i].n /\ log[j].direction = "subscriber->broker"

\* C19: the acknowledgement of a reading of sensor S goes out on the topic S
\* listens to, so once the relay has accepted the reading, S._on_ack is
\* eventually called with its acknowledgement and sets S.acked to the
\* reading's id; acked of a sensor only ever holds ids of that sensor's own
\* readings; a payload _on_ack cannot use leaves acked as it was, and a sensor
\* can always publish its next reading.
Usable(raw) == raw.ok /\ raw.val.kind = "dict"
AckedWith(s, id) ==
  \E h \in DOMAIN onack :
    onack[h].sensor = s /\ Usable(onack[h].raw) /\ onack[h].raw.val.origId = id
AcceptedFrom(s, k) ==
  \E h \in DOMAIN received :
    received[h].raw.ok /\ received[h].raw.val.id = ReadingId(s, k)

C19_AckReachesItsSensor ==
  /\ \A s \in Sensors : \A k \in 1..MaxReadings :
       AcceptedFrom(s, k) ~> AckedWith(s, ReadingId(s, k))
  /\ [](\A s \in Sensors :
          /\ acked[s] # NoneVal => \E k \in 1..sent[s] : acked[s] = ReadingId(s, k)
          /\ sent[s] < MaxReadings => ENABLED SensorPublish(s))
  /\ [][Len(onack') = Len(onack) + 1 =>
          LET call == onack'[Len(onack')]
          IN /\ sent' = sent
             /\ \A s \in Sensors \ {call.sensor} : acked'[s] = acked[s]
             /\ acked'[call.sensor] = IF Usable(call.raw) THEN call.raw.val.origId
                                                          ELSE acked[call.sensor]]_vars

C19_Witness ==
  /\ acked["s1"] = "a1"
  /\ acked["s2"] = "b1"
  /\ AckedWith("s1", "a1")
  /\ \E k \in DOMAIN onack : ~onack[k].raw.ok

\* C20: while a session that was attached when an event was enqueued is
\* still attached, the event, once it has left the queue and the hands of
\* the session that took it, has been delivered to some viewer; and no viewer
\* is delivered the same event twice.
Gone(j) ==
  /\ \A i \in DOMAIN event_q : event_q[i].seq # j
  /\ \A v \in Viewers : item[v].seq # j

C20_EveryEventDelivered ==
  /\ \A j \in DOMAIN log :
       (Gone(j) /\ \E w \in log[j].aud : conn[w] /\ vpc[w] \in {"get", "yield"})
         => \E v \in Viewers : \E h \in DOMAIN delivered[v] : delivered[v][h].seq = j
  /\ \A v \in Viewers : \A i, h \in DOMAIN delivered[v] :
       delivered[v][i].seq = delivered[v][h].seq => i = h
====
